---- MODULE Spec2Model ----
(***************************************************************************)
(* A model of docker-downlocal.py: the DockerImageManager pipeline that    *)
(* parses an image name, pulls it (optionally through a mirror), saves it  *)
(* to a tar, zips it, moves the zip to remote_path and cleans up.          *)
(*                                                                         *)
(* Strings are sequences of one-character strings, so that splitting,      *)
(* stripping and character substitution are computed as Python computes    *)
(* them.  A Python value that may be None is a sequence of length 0 (None) *)
(* or 1 (the value).                                                       *)
(***************************************************************************)
EXTENDS Integers, Sequences, FiniteSets

VARIABLES
    pc,               \* the statement of run() that executes next, or "exit"
    config_exists,    \* os.path.exists(CONFIG_FILE)
    config_mirrors,   \* the 'registry_mirrors' value of the configuration file
    remote_is_cwd,    \* the configured remote_path names the working directory
    registry_mirrors, \* self.registry_mirrors
    args_image,       \* args.image: None or the string given with -i
    input_str,        \* the string run() passed to parse_image_input, None before
    image_info,       \* self.image_info
    update_needed,    \* the value check_image_update returned to pull_image
    cwd_files,        \* the paths that exist relative to the working directory
    remote_files,     \* the paths that exist under remote_path (when it is another directory)
    clock,            \* the wall clock, in ticks of 1/TicksPerSecond s
    events,           \* the external commands and file operations performed, in order
    exceptions,       \* the exceptions raised so far, with the handler that caught each
    exit_code,        \* the process's exit status; None until it exits
    runs,             \* the archives earlier runs deposited (SpecNames)
    overwritten       \* a move replaced an archive that was already there (SpecNames)

vars == <<pc, config_exists, config_mirrors, remote_is_cwd, registry_mirrors,
          args_image, input_str, image_info, update_needed, cwd_files, remote_files, clock,
          events, exceptions, exit_code, runs, overwritten>>

-----------------------------------------------------------------------------
(* Bounds of the model *)

\* the longest image input the parsing specification enumerates
MaxLen == 3
\* the last clock reading, in ticks
MaxClock == 3
\* the number of runs the naming specification performs
MaxRuns == 2

\* ticks per second of the modelled clock (datetime.now() is finer than the
\* %S field strftime keeps)
TicksPerSecond == 2

-----------------------------------------------------------------------------
(* Python values *)

None == <<>>
Some(x) == <<x>>
\* bool(x) of a value that is None or a string
Truthy(x) == x # None /\ x[1] # <<>>

Lower == {"a","b","c","d","e","f","g","h","i","j","k","l","m",
          "n","o","p","q","r","s","t","u","v","w","x","y","z"}
Upper == {"A","B","C","D","E","F","G","H","I","J","K","L","M",
          "N","O","P","Q","R","S","T","U","V","W","X","Y","Z"}
Digits == {"0","1","2","3","4","5","6","7","8","9"}
\* str.strip() and \s
Whitespace == {" ", "\n", "\t"}
\* \w
WordChars == Lower \cup Upper \cup Digits \cup {"_"}

\* c in s
Contains(s, c) == \E i \in 1..Len(s) : s[i] = c

RECURSIVE LStrip(_)
LStrip(s) ==
    IF s # <<>> /\ Head(s) \in Whitespace THEN LStrip(Tail(s)) ELSE s

RECURSIVE RStrip(_)
RStrip(s) ==
    IF s # <<>> /\ s[Len(s)] \in Whitespace
        THEN RStrip(SubSeq(s, 1, Len(s) - 1)) ELSE s

\* s.strip()
Strip(s) == RStrip(LStrip(s))

\* s.find(c) + 1 : the position of the first c, 0 when there is none
Find(s, c) ==
    IF Contains(s, c)
        THEN CHOOSE i \in 1..Len(s) :
                 s[i] = c /\ \A j \in 1..(i - 1) : s[j] # c
        ELSE 0

RECURSIVE Split(_, _)
\* s.split(c)
Split(s, c) ==
    LET i == Find(s, c) IN
    IF i = 0 THEN <<s>>
    ELSE <<SubSeq(s, 1, i - 1)>> \o Split(SubSeq(s, i + 1, Len(s)), c)

\* s.split(c, 1) for an s that contains c
Split1(s, c) ==
    LET i == Find(s, c) IN
    <<SubSeq(s, 1, i - 1), SubSeq(s, i + 1, Len(s))>>

\* re.sub(r'[...]', r, s): every character of s that is in bad is replaced by r
ReSub(bad, r, s) == [i \in 1..Len(s) |-> IF s[i] \in bad THEN r ELSE s[i]]

\* re.sub(r'[^...]', r, s): every character of s that is not in keep is replaced by r
ReSubNot(keep, r, s) == [i \in 1..Len(s) |-> IF s[i] \in keep THEN s[i] ELSE r]

\* s.lower()
LowerCase(s) ==
    [i \in 1..Len(s) |->
        IF s[i] \in Upper
            THEN CHOOSE l \in Lower :
                     \E k \in 1..26 :
                         /\ <<"a","b","c","d","e","f","g","h","i","j","k","l","m",
                              "n","o","p","q","r","s","t","u","v","w","x","y","z">>[k] = l
                         /\ <<"A","B","C","D","E","F","G","H","I","J","K","L","M",
                              "N","O","P","Q","R","S","T","U","V","W","X","Y","Z">>[k] = s[i]
            ELSE s[i]]

\* s.isdigit()
IsDigit(s) == s # <<>> /\ \A i \in 1..Len(s) : s[i] \in Digits

DigitValue(d) ==
    CHOOSE v \in 0..9 : <<"0","1","2","3","4","5","6","7","8","9">>[v + 1] = d

RECURSIVE ToInt(_)
\* int(s) for a string of digits
ToInt(s) ==
    IF s = <<>> THEN 0
    ELSE 10 * ToInt(SubSeq(s, 1, Len(s) - 1)) + DigitValue(s[Len(s)])

\* the decimal digit d as a character
DigitChar(d) == <<"0","1","2","3","4","5","6","7","8","9">>[d + 1]

\* "%02d" % n
TwoDigits(n) == <<DigitChar((n \div 10) % 10), DigitChar(n % 10)>>

\* the strings over alphabet of length at most n
StringsUpTo(alphabet, n) == UNION {[1..k -> alphabet] : k \in 0..n}

-----------------------------------------------------------------------------
(* The strings of the program text *)

SLASH == <<"/">>
COLON == <<":">>
UNDERSCORE == <<"_">>
LATEST == <<"l","a","t","e","s","t">>
LIBRARY == <<"/","l","i","b","r","a","r","y","/">>
DOT_TAR == <<".","t","a","r">>
DOT_ZIP == <<".","z","i","p">>

\* __init__: self.image_info
InitialImageInfo ==
    [original_name |-> <<>>, original_tag |-> LATEST,
     arch |-> <<"a","m","d","6","4">>, mirror |-> None,
     tar_name |-> <<>>, zip_name |-> <<>>, pulled_ref |-> <<>>]

\* select_architecture: arch_map
arch_map ==
    [c \in {<<"1">>, <<"2">>, <<"3">>} |->
        CASE c = <<"1">> -> <<"a","m","d","6","4">>
          [] c = <<"2">> -> <<"a","r","m","6","4">>
          [] c = <<"3">> -> <<"a","r","m","/","v","7">>]

\* the characters parse_image_input keeps in the name: [a-zA-Z0-9_./-]
NameChars == Lower \cup Upper \cup Digits \cup {"_", ".", "/", "-"}

-----------------------------------------------------------------------------
(* The functions of DockerImageManager that compute values *)

\* handle_config: [m.strip() for m in value.split(',') if m.strip()]
parse_mirrors(value) ==
    LET parts == Split(value, ",")
        kept == SelectSeq(parts, LAMBDA m : Strip(m) # <<>>)
    IN  [i \in 1..Len(kept) |-> Strip(kept[i])]

\* parse_image_input
parse_image_input(info, image_input) ==
    LET split == IF Contains(image_input, ":")
                     THEN [info EXCEPT !.original_name = Split1(image_input, ":")[1],
                                       !.original_tag = Split1(image_input, ":")[2]]
                     ELSE [info EXCEPT !.original_name = image_input]
    IN  [split EXCEPT !.original_name = ReSubNot(NameChars, "_", split.original_name)]

\* get_pull_reference without the official-image branch
get_pull_reference_no_library(info) ==
    IF Truthy(info.mirror)
        THEN info.mirror[1] \o SLASH \o info.original_name
        ELSE info.original_name

\* get_pull_reference
get_pull_reference(info) ==
    IF Truthy(info.mirror)
        THEN IF ~Contains(info.original_name, "/")
                 THEN info.mirror[1] \o LIBRARY \o info.original_name
                 ELSE info.mirror[1] \o SLASH \o info.original_name
        ELSE info.original_name

\* re.search(r'"digest":\s*"(\w+:\w+)"', stdout): stdout is given by the values
\* of its "digest" fields in document order; the search returns the first
\* value of the form \w+:\w+, or None
IsWord(s) == s # <<>> /\ \A i \in 1..Len(s) : s[i] \in WordChars

MatchesDigest(v) ==
    LET parts == Split(v, ":")
    IN  Len(parts) = 2 /\ IsWord(parts[1]) /\ IsWord(parts[2])

search_digest(digest_fields) ==
    LET hits == SelectSeq(digest_fields, MatchesDigest)
    IN  IF hits = <<>> THEN None ELSE Some(hits[1])

\* check_image_update, given what 'docker inspect' and 'docker manifest inspect'
\* answer: the value returned, and the exception the except clause swallowed
check_image_update(inspect, manifest) ==
    IF inspect.rc # 0 THEN [ret |-> TRUE, raised |-> None]
    ELSE IF manifest.rc # 0 THEN [ret |-> TRUE, raised |-> None]
    ELSE LET parts == Split(Strip(inspect.stdout), ":")
             remote == search_digest(manifest.stdout)
         IN  IF Len(parts) < 2
                 THEN [ret |-> TRUE, raised |-> Some("IndexError")]
             ELSE IF remote = None
                 THEN [ret |-> TRUE, raised |-> Some("AttributeError")]
             ELSE [ret |-> parts[2] # remote[1], raised |-> None]

\* strftime("%Y%m%d_%H%M"): the seconds field left out
strftime_minutes(now) ==
    LET s == now \div TicksPerSecond
    IN  <<"2","0","2","4","0","1","0","1","_">>
            \o TwoDigits((s \div 3600) % 24)
            \o TwoDigits((s \div 60) % 60)

\* datetime.now().strftime("%Y%m%d_%H%M%S") for a clock reading within the
\* first day of the model's epoch, 2024-01-01
strftime(now) ==
    LET s == now \div TicksPerSecond
    IN  <<"2","0","2","4","0","1","0","1","_">>
            \o TwoDigits((s \div 3600) % 24)
            \o TwoDigits((s \div 60) % 60)
            \o TwoDigits(s % 60)

\* generate_filenames
generate_filenames(info, now) ==
    LET safe_name == ReSub({":", "/"}, "_", info.original_name)
        base_name == safe_name \o UNDERSCORE \o info.original_tag \o UNDERSCORE
                         \o info.arch \o UNDERSCORE \o strftime(now)
    IN  [info EXCEPT !.tar_name = base_name \o DOT_TAR,
                     !.zip_name = base_name \o DOT_ZIP]

\* clean_temp_files removing the tar only
clean_temp_files_tar_only(files, info) == files \ {info.tar_name}

\* clean_temp_files: the working directory after it
clean_temp_files(files, info) == (files \ {info.tar_name}) \ {info.zip_name}

\* re.search(r'job (\d+)', stdout) finds a match
search_job(stdout) ==
    \E i \in 1..Len(stdout) :
        /\ i + 4 <= Len(stdout)
        /\ SubSeq(stdout, i, i + 3) = <<"j","o","b"," ">>
        /\ stdout[i + 4] \in Digits

-----------------------------------------------------------------------------
(* What the environment can supply *)

\* the registry_mirrors values of the configuration file: absent or empty,
\* one mirror, two mirrors with a blank entry between them
MirrorConfigs ==
    { <<>>,
      <<"m","1">>,
      <<"m","1",","," ",",","m","2","/","x"," ">> }

\* create_config_template: the registry_mirrors value it writes, shortened
\* to two mirror names
TemplateMirrors == <<"m","1",",","m","2">>

\* the image names a user gives: official, official with tag, namespaced
\* with tag, and one with a disallowed character and a two-part tag
ImageInputs ==
    { <<"a">>,
      <<"a",":","1">>,
      <<"n","/","a",":","1">>,
      <<"a","!",":","1","/","2">> }

\* the lines a user types at the image prompt
PromptInputs == ImageInputs \cup { <<>>, <<" ","a"," ">> }

\* the lines a user types at the architecture prompt
ArchChoices == { <<"1">>, <<"2">>, <<" ","3">>, <<"4">> }

\* the lines a user types at the mirror prompt
MirrorChoices == { <<"N">>, <<"1">>, <<"2">>, <<"0">>, <<"x">> }

\* the exit statuses of an external command
ExitStatuses == {0, 1}

\* 'docker inspect --format {{.Id}}': failure, or the id of the local image
InspectResults ==
    { [rc |-> 1, stdout |-> <<>>],
      [rc |-> 0, stdout |-> <<"s","h","a",":","a","\n">>],
      [rc |-> 0, stdout |-> <<"s","h","a",":","b","\n">>] }

\* 'docker manifest inspect': failure, a manifest with one digest field, a
\* manifest with none (schema 1 names its layers blobSum)
ManifestResults ==
    { [rc |-> 1, stdout |-> <<>>],
      [rc |-> 0, stdout |-> << <<"s","h","a",":","a">> >>],
      [rc |-> 0, stdout |-> <<>>] }

\* 'docker ps -a -q --filter ancestor=...': no container, one container id,
\* an error that prints nothing on stdout
PsResults ==
    { [rc |-> 0, stdout |-> <<>>],
      [rc |-> 0, stdout |-> <<"c","1","\n">>],
      [rc |-> 1, stdout |-> <<>>] }

\* 'echo ... | at ...': failure, success announcing the job on stdout,
\* success announcing it elsewhere
AtResults ==
    { [rc |-> 1, stdout |-> <<>>],
      [rc |-> 0, stdout |-> <<"j","o","b"," ","7">>],
      [rc |-> 0, stdout |-> <<>>] }

-----------------------------------------------------------------------------
(* The record of what a run did *)

\* an external command or file operation: the step of run() that performed
\* it, the command, its image or file argument, its exit status, its stdout
Ev(step, cmd, arg, rc, out) ==
    [step |-> step, cmd |-> cmd, arg |-> arg, rc |-> rc, out |-> out]

\* an exception: the step that raised it, its class, the function whose
\* except clause caught it
Exc(step, kind, caught) == [step |-> step, kind |-> kind, caught |-> caught]

\* f"{name}:{tag}"
Ref(name, tag) == name \o COLON \o tag

\* the remote_path directory holds path
RemoteHas(path) ==
    IF remote_is_cwd THEN path \in cwd_files ELSE path \in remote_files

\* run: the exit status of each except clause
except_status(kind) == IF kind = "KeyboardInterrupt" THEN 130 ELSE 1

\* subprocess.run without check=True never raises on the exit status
NoCalledProcessError(rc) == FALSE

\* subprocess.run(..., check=True) raises CalledProcessError
CalledProcessError(rc) == rc # 0

\* run: the except clauses, entered from step with the events performed and
\* the files present at the raise
Except(step, kind, evs, files) ==
    /\ exceptions' = Append(exceptions, Exc(step, kind, "run"))
    /\ events' = Append(evs, Ev("except", "clean_temp_files", <<>>, 0, <<>>))
    /\ cwd_files' = clean_temp_files(files, image_info)
    /\ exit_code' = Some(except_status(kind))
    /\ pc' = "exit"

config_vars == <<config_exists, config_mirrors, remote_is_cwd>>
names_vars == <<runs, overwritten>>

-----------------------------------------------------------------------------
(* The state after DockerImageManager() and argument parsing *)

Init ==
    /\ pc = "handle_config"
    /\ config_exists \in BOOLEAN
    /\ config_mirrors \in (IF config_exists THEN MirrorConfigs ELSE {<<>>})
    /\ remote_is_cwd \in (IF config_exists THEN BOOLEAN ELSE {FALSE})
    /\ registry_mirrors = <<>>
    /\ args_image \in {None} \cup {Some(i) : i \in ImageInputs \cup {<<>>}}
    /\ input_str = None
    /\ image_info = InitialImageInfo
    /\ update_needed = None
    /\ cwd_files = {}
    /\ remote_files = {}
    /\ clock = 0
    /\ events = <<>>
    /\ exceptions = <<>>
    /\ exit_code = None
    /\ runs = <<>>
    /\ overwritten = FALSE

-----------------------------------------------------------------------------
(* The steps of run() *)

\* handle_config, no configuration file: write the template and sys.exit(0),
\* which neither except clause of run() catches
HandleConfigMissing ==
    /\ pc = "handle_config"
    /\ ~config_exists
    /\ config_exists' = TRUE
    /\ config_mirrors' = TemplateMirrors
    /\ remote_is_cwd' = FALSE
    /\ exceptions' = Append(exceptions, Exc("handle_config", "SystemExit", "none"))
    /\ exit_code' = Some(0)
    /\ pc' = "exit"
    /\ UNCHANGED <<registry_mirrors, args_image, input_str, image_info,
                   update_needed, cwd_files, remote_files, clock, events, names_vars>>

\* handle_config, the file exists
HandleConfig ==
    /\ pc = "handle_config"
    /\ config_exists
    /\ registry_mirrors' = parse_mirrors(config_mirrors)
    /\ pc' = "read_image"
    /\ UNCHANGED <<config_vars, args_image, input_str, image_info, update_needed,
                   cwd_files, remote_files, clock, events, exceptions, exit_code,
                   names_vars>>

\* run: if args.image: self.parse_image_input(args.image)
ReadImageArg ==
    /\ pc = "read_image"
    /\ Truthy(args_image)
    /\ input_str' = args_image
    /\ image_info' = parse_image_input(image_info, args_image[1])
    /\ pc' = "select_architecture"
    /\ UNCHANGED <<config_vars, registry_mirrors, args_image, update_needed,
                   cwd_files, remote_files, clock, events, exceptions, exit_code,
                   names_vars>>

\* run: the prompt loop, one line typed
PromptImage(lines) ==
    /\ pc = "read_image"
    /\ ~Truthy(args_image)
    /\ \E line \in lines :
        LET typed == Strip(line) IN
        IF typed # <<>>
            THEN /\ input_str' = Some(typed)
                 /\ image_info' = parse_image_input(image_info, typed)
                 /\ pc' = "select_architecture"
            ELSE UNCHANGED <<input_str, image_info, pc>>
    /\ UNCHANGED <<config_vars, registry_mirrors, args_image, update_needed,
                   cwd_files, remote_files, clock, events, exceptions, exit_code,
                   names_vars>>

\* select_architecture, one line typed
SelectArchitecture ==
    /\ pc = "select_architecture"
    /\ \E line \in ArchChoices :
        LET choice == Strip(line) IN
        IF choice \in DOMAIN arch_map
            THEN /\ image_info' = [image_info EXCEPT !.arch = arch_map[choice]]
                 /\ pc' = "select_mirror"
            ELSE UNCHANGED <<image_info, pc>>
    /\ UNCHANGED <<config_vars, registry_mirrors, args_image, input_str,
                   update_needed, cwd_files, remote_files, clock, events,
                   exceptions, exit_code, names_vars>>

\* select_mirror: the mirror a typed line selects, None for 'n',
\* "again" for an invalid line
select_mirror(mirrors, line) ==
    LET choice == LowerCase(Strip(line)) IN
    IF choice = <<"n">> THEN [again |-> FALSE, mirror |-> None]
    ELSE IF IsDigit(choice) /\ 0 <= ToInt(choice) - 1 /\ ToInt(choice) - 1 < Len(mirrors)
        THEN [again |-> FALSE, mirror |-> Some(mirrors[ToInt(choice)])]
    ELSE [again |-> TRUE, mirror |-> None]

\* select_mirror, returning at once without mirrors, else one line typed
SelectMirror ==
    /\ pc = "select_mirror"
    /\ IF registry_mirrors = <<>>
           THEN /\ pc' = "check_image_update"
                /\ UNCHANGED image_info
           ELSE \E line \in MirrorChoices :
                    LET sel == select_mirror(registry_mirrors, line) IN
                    IF sel.again THEN UNCHANGED <<image_info, pc>>
                    ELSE /\ image_info' =
                                IF sel.mirror = None THEN image_info
                                ELSE [image_info EXCEPT !.mirror = sel.mirror]
                         /\ pc' = "check_image_update"
    /\ UNCHANGED <<config_vars, registry_mirrors, args_image, input_str,
                   update_needed, cwd_files, remote_files, clock, events,
                   exceptions, exit_code, names_vars>>

\* pull_image: if not self.check_image_update()
CheckImageUpdate ==
    /\ pc = "check_image_update"
    /\ \E inspect \in InspectResults, manifest \in ManifestResults :
        LET r == check_image_update(inspect, manifest)
            local == Ref(get_pull_reference(image_info), image_info.original_tag)
            remote == Ref(image_info.original_name, image_info.original_tag)
            ran == <<Ev("check_image_update", "inspect", local, inspect.rc, inspect.stdout)>>
                     \o IF inspect.rc = 0
                            THEN <<Ev("check_image_update", "manifest inspect", remote,
                                      manifest.rc, manifest.stdout)>>
                            ELSE <<>>
        IN  /\ update_needed' = Some(r.ret)
            /\ events' = events \o ran
            /\ exceptions' =
                   IF r.raised = None THEN exceptions
                   ELSE Append(exceptions,
                               Exc("check_image_update", r.raised[1], "check_image_update"))
    /\ pc' = "pull_image"
    /\ UNCHANGED <<config_vars, registry_mirrors, args_image, input_str, image_info,
                   cwd_files, remote_files, clock, exit_code, names_vars>>

\* pull_image, after the check: return when no update is needed, else
\* 'docker pull --platform linux/<arch> <pull_ref>'
PullImage ==
    /\ pc = "pull_image"
    /\ IF ~update_needed[1]
           THEN /\ pc' = "rename_image"
                /\ UNCHANGED <<image_info, events, exceptions, cwd_files, exit_code>>
           ELSE \E rc \in ExitStatuses :
                    LET pull_ref == Ref(get_pull_reference(image_info),
                                        image_info.original_tag)
                        ran == Append(events, Ev("pull_image", "pull", pull_ref, rc, <<>>))
                    IN  IF rc # 0
                            THEN /\ Except("pull_image", "RuntimeError", ran, cwd_files)
                                 /\ UNCHANGED image_info
                            ELSE /\ image_info' = [image_info EXCEPT !.pulled_ref = pull_ref]
                                 /\ events' = ran
                                 /\ pc' = "rename_image"
                                 /\ UNCHANGED <<exceptions, cwd_files, exit_code>>
    /\ UNCHANGED <<config_vars, registry_mirrors, args_image, input_str,
                   update_needed, remote_files, clock, names_vars>>

\* rename_image without the final assignment to pulled_ref
rename_image_keeps_ref(info) == info

\* rename_image, after tag and rmi succeeded: pulled_ref becomes original_ref
rename_image(info) ==
    [info EXCEPT !.pulled_ref = Ref(info.original_name, info.original_tag)]

\* run: if self.image_info['mirror']: self.rename_image()
RenameImage ==
    /\ pc = "rename_image"
    /\ IF ~Truthy(image_info.mirror)
           THEN /\ pc' = "generate_filenames"
                /\ UNCHANGED <<image_info, events, exceptions, cwd_files, exit_code>>
           ELSE \E tag_rc \in ExitStatuses, rmi_rc \in ExitStatuses :
                    LET tagged == Append(events, Ev("rename_image", "tag",
                                                    image_info.pulled_ref, tag_rc, <<>>))
                        removed == Append(tagged, Ev("rename_image", "rmi",
                                                     image_info.pulled_ref, rmi_rc, <<>>))
                    IN  IF CalledProcessError(tag_rc)
                            THEN /\ Except("rename_image", "CalledProcessError",
                                           tagged, cwd_files)
                                 /\ UNCHANGED image_info
                        ELSE IF CalledProcessError(rmi_rc)
                            THEN /\ Except("rename_image", "CalledProcessError",
                                           removed, cwd_files)
                                 /\ UNCHANGED image_info
                        ELSE /\ image_info' = rename_image(image_info)
                             /\ events' = removed
                             /\ pc' = "generate_filenames"
                             /\ UNCHANGED <<exceptions, cwd_files, exit_code>>
    /\ UNCHANGED <<config_vars, registry_mirrors, args_image, input_str,
                   update_needed, remote_files, clock, names_vars>>

\* generate_filenames, reading the clock
GenerateFilenames ==
    /\ pc = "generate_filenames"
    /\ \E now \in clock..MaxClock :
        /\ clock' = now
        /\ image_info' = generate_filenames(image_info, now)
    /\ pc' = "create_tar_package"
    /\ UNCHANGED <<config_vars, registry_mirrors, args_image, input_str,
                   update_needed, cwd_files, remote_files, events, exceptions,
                   exit_code, names_vars>>
\* create_tar_package: 'docker save -o <tar_name> <pulled_ref>', check=True;
\* a failed save may leave a partial tar behind
CreateTarPackage ==
    /\ pc = "create_tar_package"
    /\ \E rc \in ExitStatuses, partial \in BOOLEAN :
        LET ran == Append(events, Ev("create_tar_package", "save",
                                     image_info.pulled_ref, rc, <<>>))
        IN  IF CalledProcessError(rc)
                THEN Except("create_tar_package", "CalledProcessError", ran,
                            IF partial THEN cwd_files \cup {image_info.tar_name}
                            ELSE cwd_files)
                ELSE /\ cwd_files' = cwd_files \cup {image_info.tar_name}
                     /\ events' = ran
                     /\ pc' = "compress_to_zip"
                     /\ UNCHANGED <<exceptions, exit_code>>
    /\ UNCHANGED <<config_vars, registry_mirrors, args_image, input_str, image_info,
                   update_needed, remote_files, clock, names_vars>>

\* compress_to_zip: the zip is written, or writing it raises and is re-raised,
\* a partial zip possibly left behind
CompressToZip ==
    /\ pc = "compress_to_zip"
    /\ \E ok \in BOOLEAN, partial \in BOOLEAN :
        LET ran == Append(events, Ev("compress_to_zip", "zip", image_info.zip_name,
                                     IF ok THEN 0 ELSE 1, <<>>))
        IN  IF ~ok
                THEN Except("compress_to_zip", "OSError", ran,
                            IF partial THEN cwd_files \cup {image_info.zip_name}
                            ELSE cwd_files)
                ELSE /\ cwd_files' = cwd_files \cup {image_info.zip_name}
                     /\ events' = ran
                     /\ pc' = "transfer_zip_file"
                     /\ UNCHANGED <<exceptions, exit_code>>
    /\ UNCHANGED <<config_vars, registry_mirrors, args_image, input_str, image_info,
                   update_needed, remote_files, clock, names_vars>>

\* transfer_zip_file: shutil.move(zip_name, os.path.join(remote_path, zip_name)),
\* the files of the working directory and of remote_path after it; moving a
\* file onto itself changes nothing
transfer_zip_file(cwd, remote, zip_name, same_directory) ==
    IF same_directory
        THEN [cwd |-> cwd, remote |-> remote]
        ELSE [cwd |-> cwd \ {zip_name}, remote |-> remote \cup {zip_name}]

\* transfer_zip_file: the move succeeds, or raises and is re-raised
TransferZipFile ==
    /\ pc = "transfer_zip_file"
    /\ \E ok \in BOOLEAN :
        LET ran == Append(events, Ev("transfer_zip_file", "move", image_info.zip_name,
                                     IF ok THEN 0 ELSE 1, <<>>))
            moved == transfer_zip_file(cwd_files, remote_files, image_info.zip_name,
                                       remote_is_cwd)
        IN  IF ~ok
                THEN /\ Except("transfer_zip_file", "OSError", ran, cwd_files)
                     /\ UNCHANGED remote_files
                ELSE /\ cwd_files' = moved.cwd
                     /\ remote_files' = moved.remote
                     /\ events' = ran
                     /\ pc' = "clean_image"
                     /\ UNCHANGED <<exceptions, exit_code>>
    /\ UNCHANGED <<config_vars, registry_mirrors, args_image, input_str, image_info,
                   update_needed, clock, names_vars>>

\* check_container_usage: bool(result.stdout.strip()); the exit status of
\* 'docker ps' is not looked at
check_container_usage(ps) == Strip(ps.stdout) # <<>>

\* schedule_cleanup, given what 'at' answers: the command it ran and the
\* exception its except clause swallowed
schedule_cleanup(ref, at) ==
    [events |-> <<Ev("clean_image", "at", ref, at.rc, at.stdout)>>,
     exceptions |->
        IF at.rc = 0 /\ ~search_job(at.stdout)
            THEN <<Exc("clean_image", "AttributeError", "schedule_cleanup")>>
            ELSE <<>>]

\* clean_image scheduling the deferred removal when the image is in use
clean_image_defers_in_use(ref, ps, rmi_rc, at) ==
    LET listed == <<Ev("clean_image", "ps", ref, ps.rc, ps.stdout)>>
        removed == <<Ev("clean_image", "rmi", ref, rmi_rc, <<>>)>>
    IN  IF check_container_usage(ps)
            THEN [events |-> listed \o schedule_cleanup(ref, at).events,
                  exceptions |-> schedule_cleanup(ref, at).exceptions]
        ELSE IF ~CalledProcessError(rmi_rc)
            THEN [events |-> listed \o removed, exceptions |-> <<>>]
        ELSE [events |-> listed \o removed \o schedule_cleanup(ref, at).events,
              exceptions |->
                  <<Exc("clean_image", "CalledProcessError", "clean_image")>>
                      \o schedule_cleanup(ref, at).exceptions]

\* clean_image, given what ps, rmi and at answer: the commands it ran and
\* the exceptions it caught
clean_image(ref, ps, rmi_rc, at) ==
    LET listed == <<Ev("clean_image", "ps", ref, ps.rc, ps.stdout)>>
        removed == <<Ev("clean_image", "rmi", ref, rmi_rc, <<>>)>>
    IN  IF check_container_usage(ps)
            THEN [events |-> listed, exceptions |-> <<>>]
        ELSE IF ~CalledProcessError(rmi_rc)
            THEN [events |-> listed \o removed, exceptions |-> <<>>]
        ELSE [events |-> listed \o removed \o schedule_cleanup(ref, at).events,
              exceptions |->
                  <<Exc("clean_image", "CalledProcessError", "clean_image")>>
                      \o schedule_cleanup(ref, at).exceptions]

\* clean_image
CleanImage ==
    /\ pc = "clean_image"
    /\ \E ps \in PsResults, rmi_rc \in ExitStatuses, at \in AtResults :
        LET did == clean_image(image_info.pulled_ref, ps, rmi_rc, at)
        IN  /\ events' = events \o did.events
            /\ exceptions' = exceptions \o did.exceptions
    /\ pc' = "clean_temp_files"
    /\ UNCHANGED <<config_vars, registry_mirrors, args_image, input_str, image_info,
                   update_needed, cwd_files, remote_files, clock, exit_code,
                   names_vars>>

\* run: clean_temp_files, the usage note, and the end of the program
CleanTempFiles ==
    /\ pc = "clean_temp_files"
    /\ cwd_files' = clean_temp_files(cwd_files, image_info)
    /\ events' = Append(events, Ev("clean_temp_files", "clean_temp_files", <<>>, 0, <<>>))
    /\ exit_code' = Some(0)
    /\ pc' = "exit"
    /\ UNCHANGED <<config_vars, registry_mirrors, args_image, input_str, image_info,
                   update_needed, remote_files, clock, exceptions, names_vars>>

\* the statements inside run()'s try block
TrySteps ==
    {"handle_config", "read_image", "select_architecture", "select_mirror",
     "check_image_update", "pull_image", "rename_image", "generate_filenames",
     "create_tar_package", "compress_to_zip", "transfer_zip_file", "clean_image",
     "clean_temp_files"}

\* Ctrl-C while a step of the try block runs: KeyboardInterrupt passes every
\* 'except Exception' and reaches run(); the interrupted step may have
\* written its file, or moved the zip, already
Interrupt ==
    /\ pc \in TrySteps
    /\ \E done \in BOOLEAN :
        LET moved == transfer_zip_file(cwd_files, remote_files, image_info.zip_name,
                                       remote_is_cwd)
            files == CASE done /\ pc = "create_tar_package" ->
                              cwd_files \cup {image_info.tar_name}
                       [] done /\ pc = "compress_to_zip" ->
                              cwd_files \cup {image_info.zip_name}
                       [] done /\ pc = "transfer_zip_file" -> moved.cwd
                       [] OTHER -> cwd_files
        IN  /\ Except(pc, "KeyboardInterrupt", events, files)
            /\ remote_files' = IF done /\ pc = "transfer_zip_file"
                                   THEN moved.remote ELSE remote_files
    /\ UNCHANGED <<config_vars, registry_mirrors, args_image, input_str, image_info,
                   update_needed, clock, names_vars>>

Next ==
    \/ HandleConfigMissing
    \/ HandleConfig
    \/ ReadImageArg
    \/ PromptImage(PromptInputs)
    \/ SelectArchitecture
    \/ SelectMirror
    \/ CheckImageUpdate
    \/ PullImage
    \/ RenameImage
    \/ GenerateFilenames
    \/ CreateTarPackage
    \/ CompressToZip
    \/ TransferZipFile
    \/ CleanImage
    \/ CleanTempFiles
    \/ Interrupt

Spec == Init /\ [][Next]_vars
-----------------------------------------------------------------------------
(* Parsing and reference construction over every short input *)

\* the characters of the inputs enumerated: a name character, the tag
\* separator, the path separator, a disallowed character, a blank
ParseAlphabet == {"a", ":", "/", "!", " "}

ParseInputs == StringsUpTo(ParseAlphabet, MaxLen)

InitParse ==
    /\ pc = "handle_config"
    /\ config_exists = TRUE
    /\ config_mirrors \in MirrorConfigs
    /\ remote_is_cwd = FALSE
    /\ registry_mirrors = <<>>
    /\ args_image \in {None} \cup {Some(i) : i \in ParseInputs}
    /\ input_str = None
    /\ image_info = InitialImageInfo
    /\ update_needed = None
    /\ cwd_files = {}
    /\ remote_files = {}
    /\ clock = 0
    /\ events = <<>>
    /\ exceptions = <<>>
    /\ exit_code = None
    /\ runs = <<>>
    /\ overwritten = FALSE

NextParse ==
    \/ HandleConfig
    \/ ReadImageArg
    \/ PromptImage(ParseInputs)
    \/ SelectArchitecture
    \/ SelectMirror
    \/ CheckImageUpdate

SpecParse == InitParse /\ [][NextParse]_vars

-----------------------------------------------------------------------------
(* File naming and the move to remote_path over several runs of the program *)

InitNames ==
    /\ pc = "names_start"
    /\ config_exists = TRUE
    /\ config_mirrors = <<>>
    /\ remote_is_cwd = FALSE
    /\ registry_mirrors = <<>>
    /\ args_image = None
    /\ input_str = None
    /\ image_info = InitialImageInfo
    /\ update_needed = None
    /\ cwd_files = {}
    /\ remote_files = {}
    /\ clock = 0
    /\ events = <<>>
    /\ exceptions = <<>>
    /\ exit_code = None
    /\ runs = <<>>
    /\ overwritten = FALSE

\* a new process: __init__, parse_image_input and select_architecture
NamesStart ==
    /\ pc = "names_start"
    /\ Len(runs) < MaxRuns
    /\ \E typed \in ImageInputs, choice \in DOMAIN arch_map :
        /\ input_str' = Some(typed)
        /\ image_info' = [parse_image_input(InitialImageInfo, typed)
                              EXCEPT !.arch = arch_map[choice]]
    /\ pc' = "names_generate"
    /\ UNCHANGED <<config_vars, registry_mirrors, args_image, update_needed,
                   cwd_files, remote_files, clock, events, exceptions, exit_code,
                   names_vars>>

\* generate_filenames, reading the clock, which has not gone back
NamesGenerate ==
    /\ pc = "names_generate"
    /\ \E now \in clock..MaxClock :
        /\ clock' = now
        /\ image_info' = generate_filenames(image_info, now)
    /\ pc' = "names_transfer"
    /\ UNCHANGED <<config_vars, registry_mirrors, args_image, input_str,
                   update_needed, cwd_files, remote_files, events, exceptions,
                   exit_code, names_vars>>

\* the zip is written and transfer_zip_file moves it to remote_path
NamesTransfer ==
    /\ pc = "names_transfer"
    /\ LET moved == transfer_zip_file(cwd_files \cup {image_info.zip_name},
                                      remote_files, image_info.zip_name,
                                      remote_is_cwd)
       IN  /\ cwd_files' = moved.cwd
           /\ remote_files' = moved.remote
    /\ overwritten' = (overwritten \/ RemoteHas(image_info.zip_name))
    /\ runs' = Append(runs, [input |-> input_str[1], arch |-> image_info.arch,
                             now |-> clock, tar_name |-> image_info.tar_name,
                             zip_name |-> image_info.zip_name])
    /\ pc' = "names_start"
    /\ UNCHANGED <<config_vars, registry_mirrors, args_image, input_str, image_info,
                   update_needed, clock, events, exceptions, exit_code>>

NextNames ==
    \/ NamesStart
    \/ NamesGenerate
    \/ NamesTransfer

SpecNames == InitNames /\ [][NextNames]_vars
-----------------------------------------------------------------------------
(* Vocabulary of the properties *)

EventIndexes == 1..Len(events)
ExceptionIndexes == 1..Len(exceptions)

\* the container listing at event i found a container using the image
InUse(i) == Strip(events[i].out) # <<>>

\* event i is a command of clean_image that removes the image or schedules
\* its removal
RemovesImage(i) ==
    events[i].step = "clean_image" /\ events[i].cmd \in {"rmi", "at"}

\* after event i nothing but the except clause ran, and the process exited
\* with a non-zero status
AbortsRun(i) ==
    /\ \A j \in EventIndexes : j > i => events[j].step = "except"
    /\ pc = "exit"
    /\ exit_code \notin {None, Some(0)}

\* run()'s except clause was the last thing the run did
HandlerRan ==
    /\ events # <<>>
    /\ events[Len(events)].step = "except"
    /\ events[Len(events)].cmd = "clean_temp_files"

\* neither temp file is in the working directory
TempFilesGone ==
    /\ image_info.tar_name \notin cwd_files
    /\ image_info.zip_name \notin cwd_files

\* the pipeline ran to its last statement and the process exited with 0
Completed ==
    /\ pc = "exit"
    /\ exit_code = Some(0)
    /\ events # <<>>
    /\ events[Len(events)].step = "clean_temp_files"

\* <original_name>:<original_tag>
CanonicalRef == image_info.original_name \o <<":">> \o image_info.original_tag

\* the reference through the selected mirror, by image kind
MirrorRef ==
    image_info.mirror[1]
        \o (IF Contains(image_info.original_name, "/")
                THEN <<"/">> ELSE <<"/","l","i","b","r","a","r","y","/">>)
        \o image_info.original_name \o <<":">> \o image_info.original_tag

\* every character of s is one of [a-zA-Z0-9_./-]
OnlyNameChars(s) == \A i \in 1..Len(s) : s[i] \in NameChars

\* the second a recorded run read from the clock
SecondOf(r) == r.now \div TicksPerSecond

RunPairs == {p \in (1..Len(runs)) \X (1..Len(runs)) : p[1] < p[2]}

-----------------------------------------------------------------------------
(* Properties of the pipeline (Spec) *)

\* C1, as claimed: when ps lists a container using the image, clean_image
\* runs no rmi and attempts the deferred job (at); when it lists none, rmi
\* runs at once.
C1_InUseSchedulesDeferredRemoval ==
    \A i \in EventIndexes :
        events[i].cmd = "ps" =>
            IF InUse(i)
                THEN /\ \A j \in EventIndexes : j > i => events[j].cmd # "rmi"
                     /\ \E j \in EventIndexes :
                            j > i /\ events[j].cmd = "at" /\ events[j].arg = events[i].arg
                ELSE /\ i < Len(events)
                     /\ events[i + 1].cmd = "rmi"
                     /\ events[i + 1].arg = events[i].arg

\* C1, amended: when ps lists a container using the image, clean_image runs
\* neither rmi nor at (the image is kept); when it lists none, rmi runs at
\* once, and at is attempted exactly when that rmi exits non-zero.
C1_InUseKeepsImage ==
    \A i \in EventIndexes :
        events[i].cmd = "ps" =>
            IF InUse(i)
                THEN \A j \in EventIndexes : j > i => ~RemovesImage(j)
                ELSE /\ i < Len(events)
                     /\ events[i + 1].cmd = "rmi"
                     /\ events[i + 1].arg = events[i].arg
                     /\ IF events[i + 1].rc # 0
                            THEN /\ i + 1 < Len(events)
                                 /\ events[i + 2].cmd = "at"
                                 /\ events[i + 2].arg = events[i].arg
                            ELSE \A j \in EventIndexes : events[j].cmd # "at"

\* C1 witness: a run in which ps listed a container, finished with status 0.
C1_Witness ==
    /\ Completed
    /\ \E i \in EventIndexes : events[i].cmd = "ps" /\ InUse(i)

\* C2, as claimed: a non-zero exit of pull, tag, rmi, save or ps aborts the
\* run: no later step executes and the exit status is non-zero.
C2_EveryFailedCommandAborts ==
    \A i \in EventIndexes :
        (events[i].cmd \in {"pull", "tag", "rmi", "save", "ps"} /\ events[i].rc # 0)
            => AbortsRun(i)

\* C2, amended: a non-zero exit of pull, tag, save or the rmi of rename_image
\* aborts the run with status 1; a non-zero exit of the rmi of clean_image is
\* followed by the deferred job, and the exit status of ps is not looked at
\* (with nothing listed, rmi follows).
C2_CheckedCommandsAbort ==
    \A i \in EventIndexes :
        /\ ( /\ \/ events[i].cmd \in {"pull", "tag", "save"}
                \/ events[i].cmd = "rmi" /\ events[i].step = "rename_image"
             /\ events[i].rc # 0 )
                => (AbortsRun(i) /\ exit_code = Some(1))
        /\ (events[i].cmd = "rmi" /\ events[i].step = "clean_image" /\ events[i].rc # 0)
                => (i < Len(events) /\ events[i + 1].cmd = "at")
        /\ (events[i].cmd = "ps" /\ events[i].rc # 0 /\ ~InUse(i))
                => (i < Len(events) /\ events[i + 1].cmd = "rmi")

\* C2 witness: docker save exited non-zero and the process has exited.
C2_Witness ==
    /\ pc = "exit"
    /\ \E i \in EventIndexes : events[i].cmd = "save" /\ events[i].rc # 0

C8_SkipsPullIffDigestsEqual ==
    update_needed # None =>
        LET i == CHOOSE k \in EventIndexes : events[k].cmd = "inspect"
            same == /\ events[i].rc = 0
                    /\ i < Len(events)
                    /\ events[i + 1].cmd = "manifest inspect"
                    /\ events[i + 1].rc = 0
                    /\ events[i + 1].out # <<>>
                    /\ Strip(events[i].out) = events[i + 1].out[1]
        IN  (update_needed = Some(FALSE)) <=> same

C10_CompletedRunLeavesZipInStaging ==
    Completed =>
        /\ \E s \in EventIndexes, z \in EventIndexes, m \in EventIndexes,
              p \in EventIndexes :
               /\ s < z /\ z < m /\ m < p /\ p < Len(events)
               /\ events[s].cmd = "save" /\ events[z].cmd = "zip"
               /\ events[m].cmd = "move" /\ events[p].cmd = "ps"
               /\ \A j \in EventIndexes : RemovesImage(j) => (p < j /\ j < Len(events))
        /\ RemoteHas(image_info.zip_name)
        /\ TempFilesGone

-----------------------------------------------------------------------------
(* Properties of parsing and reference construction (SpecParse) *)

\* C6, as claimed: original_name is the part of the input before the first
\* ':' and original_tag the part after it ('latest' without one), each with
\* every character outside [a-zA-Z0-9_./-] replaced by '_'.
C6_ParseSanitizesNameAndTag ==
    input_str # None =>
        LET given == input_str[1]
            colon == Find(given, ":")
            name == IF colon = 0 THEN given ELSE SubSeq(given, 1, colon - 1)
            tag == IF colon = 0 THEN <<"l","a","t","e","s","t">>
                   ELSE SubSeq(given, colon + 1, Len(given))
        IN  /\ image_info.original_name =
                   [i \in 1..Len(name) |-> IF name[i] \in NameChars THEN name[i] ELSE "_"]
            /\ image_info.original_tag =
                   [i \in 1..Len(tag) |-> IF tag[i] \in NameChars THEN tag[i] ELSE "_"]
            /\ OnlyNameChars(image_info.original_name)
            /\ OnlyNameChars(image_info.original_tag)

\* C7: the reference docker inspect is given is <mirror>/library/<name> for
\* a name without '/', <mirror>/<name> for a name with '/', where <mirror> is
\* a non-empty configured mirror, and <name> when no mirror is selected, each
\* followed by ':' and the tag.
C7_PullReferenceByImageKind ==
    \A i \in EventIndexes :
        events[i].cmd = "inspect" =>
            IF image_info.mirror = None
                THEN events[i].arg = CanonicalRef
                ELSE /\ image_info.mirror[1] # <<>>
                     /\ \E k \in 1..Len(registry_mirrors) :
                            registry_mirrors[k] = image_info.mirror[1]
                     /\ events[i].arg = MirrorRef

\* C7 witness: a mirror is selected, the name has a '/', and inspect has run.
C7_Witness ==
    /\ image_info.mirror # None
    /\ Contains(image_info.original_name, "/")
    /\ \E i \in EventIndexes : events[i].cmd = "inspect"

-----------------------------------------------------------------------------
(* Properties of file naming over several runs (SpecNames) *)

\* C4, as claimed: any two runs produce different tar and zip names, so no
\* run's move overwrites an archive an earlier run deposited.
C4_NamesUniquePerRun ==
    /\ \A p \in RunPairs :
           /\ runs[p[1]].tar_name # runs[p[2]].tar_name
           /\ runs[p[1]].zip_name # runs[p[2]].zip_name
    /\ ~overwritten

\* C4, amended: two runs that read different seconds from the clock produce
\* different tar and zip names; two runs for the same input and architecture
\* within one second produce the same names; and an archive is overwritten
\* only by a run within the same second as the run that deposited it.
C4_NamesDifferAcrossSeconds ==
    /\ \A p \in RunPairs :
           /\ SecondOf(runs[p[1]]) # SecondOf(runs[p[2]]) =>
                  /\ runs[p[1]].tar_name # runs[p[2]].tar_name
                  /\ runs[p[1]].zip_name # runs[p[2]].zip_name
           /\ ( /\ SecondOf(runs[p[1]]) = SecondOf(runs[p[2]])
                /\ runs[p[1]].input = runs[p[2]].input
                /\ runs[p[1]].arch = runs[p[2]].arch )
                  => runs[p[1]].zip_name = runs[p[2]].zip_name
    /\ overwritten =>
           \E p \in RunPairs :
               /\ SecondOf(runs[p[1]]) = SecondOf(runs[p[2]])
               /\ runs[p[1]].zip_name = runs[p[2]].zip_name

\* C4 witness: two runs for the same input and architecture in different
\* seconds have both deposited their archive.
C4_Witness ==
    \E p \in RunPairs :
        /\ runs[p[1]].input = runs[p[2]].input
        /\ runs[p[1]].arch = runs[p[2]].arch
        /\ SecondOf(runs[p[1]]) # SecondOf(runs[p[2]])
        /\ Cardinality(remote_files) >= 2

\* C5, as claimed: for every input and architecture the generated names are
\* <name>_<tag>_<arch>_<timestamp>.tar and .zip and contain no '/'.
C5_NamesHaveNoPathSeparator ==
    pc = "names_transfer" =>
        LET name == image_info.original_name
            base == [i \in 1..Len(name) |->
                        IF name[i] \in {":", "/"} THEN "_" ELSE name[i]]
                        \o <<"_">> \o image_info.original_tag
                        \o <<"_">> \o image_info.arch
                        \o <<"_">> \o strftime(clock)
        IN  /\ image_info.tar_name = base \o <<".","t","a","r">>
            /\ image_info.zip_name = base \o <<".","z","i","p">>
            /\ ~Contains(image_info.tar_name, "/")
            /\ ~Contains(image_info.zip_name, "/")

====
